---- MODULE Spec2Model ----
(***************************************************************************)
(* A model of src/messy_data_generator.py: AdvancedMessyDataGenerator       *)
(* (column profiling, expansion, the five corruption passes, the shuffle,  *)
(* the quality report) and the command-line entry point main().            *)
(*                                                                         *)
(* A table (DataFrame) is [columns |-> sequence of names, rows |-> sequence *)
(* of functions from the column names to cells].                           *)
(*                                                                         *)
(* A cell is a record [k, n, m, s, d] and stands for a value:                *)
(*   k = "null"  None / NaN / NaT;                                         *)
(*   k = "num"   a number x with n <= x <= m;  n = m is the number n, and  *)
(*               n < m is what random.uniform(n, m) returned, any float of *)
(*               the interval;                                             *)
(*   k = "ts"    an instant t with n <= t <= m, in minutes since           *)
(*               1970-01-01;                                               *)
(*   k = "str"   a string of Len(s) characters: s[j] >= 0 is the ASCII code *)
(*               of character j, s[j] < 0 is a class of characters         *)
(*               (CharSet) any of which character j can be.                *)
(* A cell with n = m and no class is that one value (Exact) and has d = 0.   *)
(* Any other cell is a random draw known up to its interval or classes,    *)
(* and d numbers the draw: of the cells of one column that differ in d     *)
(* only, those with the same d hold the same value and those with          *)
(* different d hold different values; a draw that came out equal to a      *)
(* value the column can hold otherwise is the exact cell of that value.    *)
(* So two cells of a column hold the same value exactly when they are      *)
(* equal.  A table of the program is described by the table of cells each  *)
(* of which covers the value at its place (Covers); every table expansion  *)
(* can build is described by a table of the model and the reverse.  The    *)
(* passes write exact cells only, and in every run explored the strings    *)
(* they read are exact: a text column, the one source of classes, is       *)
(* explored with every rate 0.                                             *)
(*                                                                         *)
(* A rate is the decimal literal passed to the program; Float gives the    *)
(* IEEE double it denotes, and the draw counts are computed in doubles.    *)
(***************************************************************************)
EXTENDS Integers, Sequences, FiniteSets

VARIABLES
    sample_df,      \* self.sample_df
    column_types,   \* self.column_types
    args,           \* the parameters of generate_messy_data / the parsed CLI arguments
    pc,             \* the statement the program is at
    df,             \* the table being built (expanded_records / messy_df / messy_data)
    duplicates,     \* the list `duplicates` of _add_smart_duplicates
    num,            \* the draw count the current pass computed
    i,              \* iterations of the current loop already run
    before,         \* the table as it was when the current step of the pipeline began
    draws,          \* the set of (row, column) pairs the current pass has drawn so far
    verbatim,       \* positions in `duplicates` of the copies appended without mutation
    expanded,       \* the table _expand_data returned
    error,          \* the exception raised ("" when none)
    main            \* main(): [stage, input, stdout, exit_code, saved, analysis]

vars == <<sample_df, column_types, args, pc, df, duplicates, num, i, before,
          draws, verbatim, expanded, error, main>>

(***************************************************************************)
(* Bounds of the model.                                                    *)
(***************************************************************************)
\* target_rows ranges over 0..MaxRows
MaxRows == 3
\* the text pass is explored when it makes at most MaxTextDraws draws
MaxTextDraws == 1
\* target_rows of the three-column scenario ranges over 1..MaxScenarioRows
MaxScenarioRows == 2

\* the rates passed to the program, as written
Zero == "0.0"
Third == "0.3333333333333333"
Half == "0.5"
One == "1.0"
Rates == {Zero, Third, Half, One}

(***************************************************************************)
(* Cells and strings.                                                      *)
(***************************************************************************)
Null == [k |-> "null", n |-> 0, m |-> 0, s |-> <<>>, d |-> 0]
Num(x) == [k |-> "num", n |-> x, m |-> x, s |-> <<>>, d |-> 0]
Ts(x) == [k |-> "ts", n |-> x, m |-> x, s |-> <<>>, d |-> 0]
Str(x) == [k |-> "str", n |-> 0, m |-> 0, s |-> x, d |-> 0]

IsNull(c) == c.k = "null"
IsStr(c) == c.k = "str"

\* string.ascii_letters and string.digits
AsciiLetters == (97..122) \cup (65..90)
Digits == 48..57

\* classes of characters: a character of string.ascii_letters, a decimal digit,
\* a decimal digit other than 0
AnyLetter == -1
AnyDigit == -2
AnyDigitButZero == -3

\* the characters a position of a string can be
CharSet(code) ==
    CASE code = AnyLetter -> AsciiLetters
      [] code = AnyDigit -> Digits
      [] code = AnyDigitButZero -> Digits \ {48}
      [] OTHER -> {code}

\* the cell is one value
Exact(c) == c.n = c.m /\ \A j \in 1..Len(c.s) : c.s[j] >= 0

\* the value v (an exact cell) is one of the values the cell c stands for
Covers(c, v) ==
    /\ c.k = v.k
    /\ c.n <= v.n /\ v.m <= c.m
    /\ Len(c.s) = Len(v.s)
    /\ \A j \in 1..Len(c.s) : v.s[j] \in CharSet(c.s[j])

Abs(x) == IF x < 0 THEN -x ELSE x

\* str.upper / str.lower on ASCII codes
Upper(s) == [j \in 1..Len(s) |-> IF s[j] \in 97..122 THEN s[j] - 32 ELSE s[j]]
Lower(s) == [j \in 1..Len(s) |-> IF s[j] \in 65..90 THEN s[j] + 32 ELSE s[j]]
\* s.replace(chr(a), chr(b)) and s.replace(chr(a), '')
ReplaceChar(s, a, b) == [j \in 1..Len(s) |-> IF s[j] = a THEN b ELSE s[j]]
RemoveChar(s, a) == SelectSeq(s, LAMBDA x : x # a)
\* s[::-1]
Reverse(s) == [j \in 1..Len(s) |-> s[Len(s) + 1 - j]]

Range(s) == {s[j] : j \in 1..Len(s)}

RECURSIVE Unique(_)
\* Series.unique(): the distinct values in order of first appearance
Unique(s) ==
    IF s = <<>> THEN <<>>
    ELSE LET u == Unique(SubSeq(s, 1, Len(s) - 1))
             x == s[Len(s)]
         IN IF x \in Range(u) THEN u ELSE Append(u, x)

RECURSIVE SeqMin(_)
SeqMin(s) ==
    IF Len(s) = 1 THEN s[1]
    ELSE LET m == SeqMin(Tail(s)) IN IF s[1] < m THEN s[1] ELSE m

RECURSIVE SeqMax(_)
SeqMax(s) ==
    IF Len(s) = 1 THEN s[1]
    ELSE LET m == SeqMax(Tail(s)) IN IF s[1] > m THEN s[1] ELSE m

(***************************************************************************)
(* Tables.                                                                 *)
(***************************************************************************)
EmptyFrame == [columns |-> <<>>, rows |-> <<>>]

\* pd.DataFrame(records): the columns are the keys of the records, in order; a
\* frame built from an empty list has no columns.
DataFrame(cols, records) ==
    IF records = <<>> THEN EmptyFrame ELSE [columns |-> cols, rows |-> records]
\* faulty variant: the appended frame's labels do not line up, its cells come out null
ConcatUnaligned(a, b) ==
    [columns |-> a.columns,
     rows |-> a.rows \o [j \in 1..Len(b.rows) |-> [c \in Range(a.columns) |-> Null]]]

\* pd.concat([a, b], ignore_index=True): the rows of a then those of b, over the
\* columns of a followed by the columns only b has.
Concat(a, b) ==
    [columns |-> a.columns \o SelectSeq(b.columns, LAMBDA c : c \notin Range(a.columns)),
     rows |-> a.rows \o b.rows]

\* the table t of cells describes the table u of values: same columns, same
\* number of rows, every cell of t covering the value at its place in u
Describes(t, u) ==
    /\ t.columns = u.columns
    /\ Len(t.rows) = Len(u.rows)
    /\ \A j \in 1..Len(t.rows) : \A c \in Range(t.columns) :
          Covers(t.rows[j][c], u.rows[j][c])

Shape0(t) == Len(t.rows)
Shape1(t) == Len(t.columns)

\* df.at[r, c] = v  (rows are numbered from 1 here, from 0 in the source)
SetAt(t, r, c, v) == [t EXCEPT !.rows[r][c] = v]

(***************************************************************************)
(* _analyze_columns: the profile of each column of the sample.             *)
(***************************************************************************)
\* self.sample_df[col].dropna() as a sequence of cells
ColData(t, col) ==
    SelectSeq([j \in 1..Len(t.rows) |-> t.rows[j][col]], LAMBDA c : ~IsNull(c))

NoInfo == [type |-> "mixed", min |-> 0, max |-> 0, samples |-> <<>>,
           unique_values |-> <<>>]

ColumnInfo(col_data) ==
    LET nums == [j \in 1..Len(col_data) |-> col_data[j].n]
        unique_vals == Unique(col_data)
    IN  IF Len(col_data) = 0 THEN NoInfo
        ELSE IF \A j \in 1..Len(col_data) : col_data[j].k = "num"
        THEN [type |-> "numeric", min |-> SeqMin(nums), max |-> SeqMax(nums),
              samples |-> col_data, unique_values |-> <<>>]
        ELSE IF \A j \in 1..Len(col_data) : col_data[j].k = "ts"
        THEN [type |-> "datetime", min |-> SeqMin(nums), max |-> SeqMax(nums),
              samples |-> col_data, unique_values |-> <<>>]
        \* len(unique_vals) < len(col_data) * 0.8
        ELSE [type |-> IF 5 * Len(unique_vals) < 4 * Len(col_data)
                       THEN "categorical" ELSE "text",
              min |-> 0, max |-> 0,
              samples |-> col_data, unique_values |-> unique_vals]

AnalyzeColumns(t) ==
    [col \in Range(t.columns) |-> ColumnInfo(ColData(t, col))]
\* faulty variant: the kind of the column is not looked at
ColsOfAnyType(types) == sample_df.columns

\* the columns of a kind, in the order of self.column_types.items()
ColsOfType(types) ==
    SelectSeq(sample_df.columns, LAMBDA c : column_types[c].type \in types)

TextCols == ColsOfType({"text", "categorical"})
NumericCols == ColsOfType({"numeric"})
DatetimeCols == ColsOfType({"datetime"})

(***************************************************************************)
(* The random module.                                                      *)
(***************************************************************************)
\* faulty variant: the interval drawn from reaches one past max
UniformPastMax(lo, hi) == [k |-> "num", n |-> lo, m |-> hi + 1, s |-> <<>>, d |-> 0]

\* random.uniform(lo, hi): a float x with lo <= x <= hi (the draw is numbered
\* when it is put in a table)
Uniform(lo, hi) == [k |-> "num", n |-> lo, m |-> hi, s |-> <<>>, d |-> 0]

\* str(random.randint(1, 999)): one to three digits, the first not 0
StrOfRandInt ==
    {<<AnyDigitButZero>>, <<AnyDigitButZero, AnyDigit>>,
     <<AnyDigitButZero, AnyDigit, AnyDigit>>}

\* ''.join(random.choices(string.ascii_letters, k=k))
LettersChoices(k) == [j \in 1..k |-> AnyLetter]

\* ''.join(random.choices(string.ascii_letters + string.digits, k=k)): every
\* string of k such characters
AlnumChoices(k) == [1..k -> AsciiLetters \cup Digits]

\* Timestamp.timestamp() of an instant, in seconds since the epoch;
\* pd.to_datetime(x, unit='s') of a number of seconds
Timestamp(t) == t * 60
ToDatetime(x) == [k |-> "ts", n |-> x.n \div 60, m |-> x.m \div 60, s |-> <<>>, d |-> 0]

(***************************************************************************)
(* The values the range and timestamp passes write.                       *)
(***************************************************************************)
\* faulty variant: the span subtracted and added twice, the edge value always -1
WrongValuesTwiceSpan(col_info) ==
    {col_info.min - 2 * Abs(col_info.max - col_info.min),
     col_info.max + 2 * Abs(col_info.max - col_info.min),
     -999999,
     999999,
     -1}

\* the list wrong_values of a numeric column
WrongValues(col_info) ==
    {col_info.min - Abs(col_info.max - col_info.min),
     col_info.max + Abs(col_info.max - col_info.min),
     -999999,
     999999,
     IF col_info.min > 0 THEN 0 ELSE -1}

\* 1900-01-01, 2100-01-01, pd.NaT, 1970-01-01 (minutes since the epoch)
WrongDates == {Ts(-25567 * 1440), Ts(47482 * 1440), Null, Ts(0)}

(***************************************************************************)
(* _generate_text_variation and _generate_similar_value: the cells the     *)
(* call can return.                                                        *)
(***************************************************************************)
\* ' Jr', ' Sr', ' II', ' Inc', ' LLC'
Suffixes == {<<32, 74, 114>>, <<32, 83, 114>>, <<32, 73, 73>>,
             <<32, 73, 110, 99>>, <<32, 76, 76, 67>>}

GenerateTextVariation(original_text) ==
    IF ~IsStr(original_text) \/ Len(original_text.s) = 0 THEN {original_text}
    ELSE LET t == original_text.s
         IN  {Str(t \o x) : x \in StrOfRandInt}
             \cup {Str(ReplaceChar(t, 32, 95))}
             \cup {Str(t \o x) : x \in Suffixes}
             \cup {Str(LettersChoices(Len(t)))}

\* what a draw of the interval of c is when it comes out equal to a value a pass
\* can write in the column
DrawOfWritten(c, written) == {w \in written : w.k = c.k /\ c.n <= w.n /\ w.m <= c.m}

GenerateSimilarValue(col_info) ==
    IF Len(col_info.samples) = 0 THEN {Null}
    ELSE CASE col_info.type = "numeric" ->
                LET x == Uniform(col_info.min, col_info.max)
                IN  Range(col_info.samples)
                    \cup {x}
                    \cup DrawOfWritten(x, {Num(w) : w \in WrongValues(col_info)})
           [] col_info.type = "datetime" ->
                LET x == ToDatetime(Uniform(Timestamp(col_info.min),
                                            Timestamp(col_info.max)))
                IN  Range(col_info.samples) \cup {x} \cup DrawOfWritten(x, WrongDates)
           [] col_info.type = "categorical" -> Range(col_info.unique_values)
           [] col_info.type = "text" ->
                UNION {{sample_text} \cup GenerateTextVariation(sample_text) :
                          sample_text \in Range(col_info.samples)}
           [] OTHER -> Range(col_info.samples)

\* the numbers of the draws like v (v but for d) in the column col of the rows
Numbered(rows, col, v) ==
    {rows[j][col].d : j \in {q \in 1..Len(rows) : [rows[q][col] EXCEPT !.d = 0] = v}}

\* the value v put in the column: an exact value as it is; a draw as one of the
\* draws like it in the column already, or as a new one
Draw(rows, col, v) ==
    IF Exact(v) THEN {v}
    ELSE {[v EXCEPT !.d = j] : j \in 1..(Cardinality(Numbered(rows, col, v)) + 1)}

RECURSIVE RecordsOver(_, _)
\* {col: value for col in cols}, every value returned by _generate_similar_value,
\* for the record that follows the rows
RecordsOver(cols, rows) ==
    IF cols = <<>> THEN {[c \in {} |-> Null]}
    ELSE LET col == cols[Len(cols)]
             rest == SubSeq(cols, 1, Len(cols) - 1)
         IN  {[c \in Range(cols) |-> IF c = col THEN v ELSE rec[c]] :
                 rec \in RecordsOver(rest, rows),
                 v \in UNION {Draw(rows, col, x) :
                                x \in GenerateSimilarValue(column_types[col])}}

\* the records one iteration of _expand_data can build
NewRecords == RecordsOver(sample_df.columns, df.rows)

(***************************************************************************)
(* Doubles.  A natural number is a sequence of bits, the lowest first; a   *)
(* double is [mant, exp], the number mant * 2^exp with mant of at most 53  *)
(* bits.                                                                   *)
(***************************************************************************)
Bits4(d) == <<d % 2, (d \div 2) % 2, (d \div 4) % 2, (d \div 8) % 2>>

RECURSIVE BitsOfHex(_)
\* the bits of a number written in hexadecimal digits, the highest first
BitsOfHex(h) ==
    IF h = <<>> THEN <<>>
    ELSE Bits4(h[Len(h)]) \o BitsOfHex(SubSeq(h, 1, Len(h) - 1))

RECURSIVE Trim(_)
Trim(a) ==
    IF a # <<>> /\ a[Len(a)] = 0 THEN Trim(SubSeq(a, 1, Len(a) - 1)) ELSE a

RECURSIVE AddBits(_, _, _)
\* a + b + carry
AddBits(a, b, carry) ==
    IF a = <<>> /\ b = <<>> THEN (IF carry = 0 THEN <<>> ELSE <<1>>)
    ELSE LET x == IF a = <<>> THEN 0 ELSE a[1]
             y == IF b = <<>> THEN 0 ELSE b[1]
         IN  <<(x + y + carry) % 2>>
             \o AddBits(IF a = <<>> THEN a ELSE Tail(a),
                        IF b = <<>> THEN b ELSE Tail(b),
                        (x + y + carry) \div 2)

RECURSIVE MulBits(_, _)
\* a * n
MulBits(a, n) ==
    IF n = 0 THEN <<>>
    ELSE AddBits(IF n % 2 = 1 THEN a ELSE <<>>, <<0>> \o MulBits(a, n \div 2), 0)

RECURSIVE NatOfBits(_)
NatOfBits(a) == IF a = <<>> THEN 0 ELSE a[1] + 2 * NatOfBits(Tail(a))

\* float.fromhex('0x<h[1]>.<h[2..14]>p<p>')
FromHex(h, p) == [mant |-> Trim(BitsOfHex(h)), exp |-> p - 52]

\* float(rate) for the rates of the model
Float(rate) ==
    CASE rate = Zero -> FromHex(<<0, 0, 0, 0, 0, 0, 0, 0, 0, 0, 0, 0, 0, 0>>, 0)
      [] rate = Third -> FromHex(<<1, 5, 5, 5, 5, 5, 5, 5, 5, 5, 5, 5, 5, 5>>, -2)
      [] rate = Half -> FromHex(<<1, 0, 0, 0, 0, 0, 0, 0, 0, 0, 0, 0, 0, 0>>, -1)
      [] rate = One -> FromHex(<<1, 0, 0, 0, 0, 0, 0, 0, 0, 0, 0, 0, 0, 0>>, 0)

\* the double nearest to a * 2^e, ties to the even mantissa
RoundToDouble(a, e) ==
    LET t == Trim(a)
        drop == Len(t) - 53
    IN  IF drop <= 0 THEN [mant |-> t, exp |-> e]
        ELSE LET kept == SubSeq(t, drop + 1, Len(t))
                 up == /\ t[drop] = 1
                       /\ \/ \E j \in 1..(drop - 1) : t[j] = 1
                          \/ kept[1] = 1
             IN  [mant |-> Trim(IF up THEN AddBits(kept, <<1>>, 0) ELSE kept),
                  exp |-> e + drop]

\* n * x for an int n >= 0 and a double x >= 0
FloatMul(n, x) == RoundToDouble(MulBits(x.mant, n), x.exp)

\* int(x) for a double x >= 0
IntOfFloat(x) ==
    IF x.exp >= 0 THEN NatOfBits([j \in 1..x.exp |-> 0] \o x.mant)
    ELSE IF -x.exp >= Len(x.mant) THEN 0
    ELSE NatOfBits(SubSeq(x.mant, 1 - x.exp, Len(x.mant)))

(***************************************************************************)
(* The draw count of a pass: int(n * rate).                                *)
(***************************************************************************)
\* the counts the passes multiply by a rate: up to twice MaxRows rows, times
\* the columns of a sample
Counts == 0..(6 * MaxRows)

\* int(n * float(rate)) for every count and rate of the model
IntOfProduct ==
    [n \in Counts, rate \in Rates |-> IntOfFloat(FloatMul(n, Float(rate)))]

\* faulty variant: at least one draw whatever the product
NumDrawsAtLeastOne(n, rate) ==
    IF IntOfProduct[n, rate] < 1 THEN 1 ELSE IntOfProduct[n, rate]

NumDraws(n, rate) == IntOfProduct[n, rate]

(***************************************************************************)
(* analyze_data_quality: df.duplicated().sum() and df.isnull().sum().      *)
(***************************************************************************)
\* the rows equal to an earlier row
Duplicated(t) ==
    Cardinality({j \in 1..Len(t.rows) : \E k \in 1..(j - 1) : t.rows[k] = t.rows[j]})

NullCount(t) ==
    Cardinality({<<j, c>> \in (1..Len(t.rows)) \X Range(t.columns) : IsNull(t.rows[j][c])})

(***************************************************************************)
(* generate_messy_data, step 1: _expand_data.                              *)
(***************************************************************************)
\* one iteration of `for i in range(target_rows)`
ExpandRow ==
    /\ pc = "expand"
    /\ i < args.target_rows
    /\ \E new_record \in NewRecords :
          df' = [df EXCEPT !.rows = Append(@, new_record)]
    /\ i' = i + 1
    /\ UNCHANGED <<sample_df, column_types, args, pc, duplicates, num, before,
                   draws, verbatim, expanded, error, main>>

\* return pd.DataFrame(expanded_records); messy_df = df.copy()
ExpandReturn ==
    /\ pc = "expand"
    /\ i = args.target_rows
    /\ df' = DataFrame(sample_df.columns, df.rows)
    /\ expanded' = df'
    /\ pc' = "dup"
    /\ UNCHANGED <<sample_df, column_types, args, duplicates, num, i, before,
                   draws, verbatim, error, main>>

(***************************************************************************)
(* Pass 1: _add_smart_duplicates.                                          *)
(***************************************************************************)
\* num_duplicates = int(len(df) * rate); np.random.choice(df.index, size=...)
\* raises ValueError when the index is empty and the size is not 0.
DupBegin ==
    /\ pc = "dup"
    /\ LET n == NumDraws(Len(df.rows), args.duplicate_rate)
       IN  /\ num' = n
           /\ IF n > 0 /\ Len(df.rows) = 0
              THEN pc' = "raised" /\ error' = "ValueError"
              ELSE pc' = "dup_loop" /\ error' = error
    /\ i' = 0
    /\ duplicates' = <<>>
    /\ verbatim' = {}
    /\ before' = df
    /\ draws' = {}
    /\ UNCHANGED <<sample_df, column_types, args, df, expanded, main>>

\* original_val + ' ', .upper(), .lower(), .replace(' ', '')
Modifications(original_val) ==
    {Str(original_val.s \o <<32>>), Str(Upper(original_val.s)),
     Str(Lower(original_val.s)), Str(RemoveChar(original_val.s, 32))}

\* the copies one iteration can append, each with whether line 200 assigned to it:
\* `near` is random.random() < 0.3
DuplicateChoices(row) ==
    {[row |-> row, mutated |-> FALSE]}
    \cup {[row |-> [row EXCEPT ![c] = m], mutated |-> TRUE] :
            <<c, m>> \in UNION {{<<c, m>> : m \in IF IsStr(row[c]) THEN Modifications(row[c])
                                                 ELSE {}} :
                                 c \in Range(TextCols)}}

\* one iteration of `for idx in duplicate_indices`
DupCopy ==
    /\ pc = "dup_loop"
    /\ i < num
    /\ \E idx \in 1..Len(df.rows) : \E d \in DuplicateChoices(df.rows[idx]) :
          /\ duplicates' = Append(duplicates, d.row)
          /\ verbatim' = IF d.mutated THEN verbatim
                         ELSE verbatim \cup {Len(duplicates) + 1}
          /\ draws' = draws \cup {<<idx, "">>}
    /\ i' = i + 1
    /\ UNCHANGED <<sample_df, column_types, args, pc, df, num, before, expanded,
                   error, main>>

\* duplicate_df = pd.DataFrame(duplicates); return pd.concat([df, duplicate_df])
DupReturn ==
    /\ pc = "dup_loop"
    /\ i = num
    /\ df' = Concat(df, DataFrame(df.columns, duplicates))
    /\ pc' = "null"
    /\ UNCHANGED <<sample_df, column_types, args, duplicates, num, i, before,
                   draws, verbatim, expanded, error, main>>

(***************************************************************************)
(* Pass 2: _add_strategic_nulls.                                           *)
(***************************************************************************)
RECURSIVE Weighted(_)
\* null_prone_cols: a text or categorical column three times, any other once
Weighted(cols) ==
    IF cols = <<>> THEN <<>>
    ELSE (IF column_types[Head(cols)].type \in {"text", "categorical"}
          THEN <<Head(cols), Head(cols), Head(cols)>>
          ELSE <<Head(cols)>>) \o Weighted(Tail(cols))

NullProneCols == Weighted(sample_df.columns)
\* total_cells = df.shape[0] * df.shape[1]
TotalCells(t) == Shape0(t) * Shape1(t)

\* num_nulls = int(total_cells * rate)
NullBegin ==
    /\ pc = "null"
    /\ num' = NumDraws(TotalCells(df), args.null_rate)
    /\ i' = 0
    /\ before' = df
    /\ draws' = {}
    /\ pc' = "null_loop"
    /\ UNCHANGED <<sample_df, column_types, args, df, duplicates, verbatim,
                   expanded, error, main>>

\* one iteration: random.randint(0, len(df) - 1) raises ValueError on an empty
\* range, random.choice raises IndexError on an empty list
NullDraw ==
    /\ pc = "null_loop"
    /\ i < num
    /\ IF Len(df.rows) = 0
       THEN pc' = "raised" /\ error' = "ValueError" /\ UNCHANGED <<df, draws, i>>
       ELSE IF NullProneCols = <<>>
       THEN pc' = "raised" /\ error' = "IndexError" /\ UNCHANGED <<df, draws, i>>
       ELSE /\ \E row_idx \in 1..Len(df.rows) : \E col_name \in Range(NullProneCols) :
                 /\ df' = SetAt(df, row_idx, col_name, Null)
                 /\ draws' = draws \cup {<<row_idx, col_name>>}
            /\ i' = i + 1
            /\ UNCHANGED <<pc, error>>
    /\ UNCHANGED <<sample_df, column_types, args, duplicates, num, before,
                   verbatim, expanded, main>>

NullReturn ==
    /\ pc = "null_loop"
    /\ i = num
    /\ pc' = "range"
    /\ UNCHANGED <<sample_df, column_types, args, df, duplicates, num, i, before,
                   draws, verbatim, expanded, error, main>>

(***************************************************************************)
(* Pass 3: _add_wrong_ranges.                                              *)
(***************************************************************************)
RangeBegin ==
    /\ pc = "range"
    /\ num' = NumDraws(Len(df.rows), args.wrong_range_rate)
    /\ i' = 0
    /\ before' = df
    /\ draws' = {}
    /\ pc' = "range_loop"
    /\ UNCHANGED <<sample_df, column_types, args, df, duplicates, verbatim,
                   expanded, error, main>>
RangeDraw ==
    /\ pc = "range_loop"
    /\ i < num
    /\ IF Len(df.rows) = 0
       THEN pc' = "raised" /\ error' = "ValueError" /\ UNCHANGED <<df, draws, i>>
       ELSE /\ \E row_idx \in 1..Len(df.rows) :
                 IF NumericCols # <<>>
                 THEN \E col \in Range(NumericCols) :
                      \E v \in WrongValues(column_types[col]) :
                         /\ df' = SetAt(df, row_idx, col, Num(v))
                         /\ draws' = draws \cup {<<row_idx, col>>}
                 ELSE /\ df' = df
                      /\ draws' = draws \cup {<<row_idx, "">>}
            /\ i' = i + 1
            /\ UNCHANGED <<pc, error>>
    /\ UNCHANGED <<sample_df, column_types, args, duplicates, num, before,
                   verbatim, expanded, main>>

RangeReturn ==
    /\ pc = "range_loop"
    /\ i = num
    /\ pc' = "ts"
    /\ UNCHANGED <<sample_df, column_types, args, df, duplicates, num, i, before,
                   draws, verbatim, expanded, error, main>>

(***************************************************************************)
(* Pass 4: _add_wrong_timestamps.                                          *)
(***************************************************************************)
\* num_wrong is computed, then `if not datetime_cols: return df`
TsBegin ==
    /\ pc = "ts"
    /\ num' = NumDraws(Len(df.rows), args.wrong_timestamp_rate)
    /\ i' = 0
    /\ before' = df
    /\ draws' = {}
    /\ pc' = IF DatetimeCols = <<>> THEN "text" ELSE "ts_loop"
    /\ UNCHANGED <<sample_df, column_types, args, df, duplicates, verbatim,
                   expanded, error, main>>

TsDraw ==
    /\ pc = "ts_loop"
    /\ i < num
    /\ IF Len(df.rows) = 0
       THEN pc' = "raised" /\ error' = "ValueError" /\ UNCHANGED <<df, draws, i>>
       ELSE /\ \E row_idx \in 1..Len(df.rows) : \E col \in Range(DatetimeCols) :
                 \E v \in WrongDates :
                    /\ df' = SetAt(df, row_idx, col, v)
                    /\ draws' = draws \cup {<<row_idx, col>>}
            /\ i' = i + 1
            /\ UNCHANGED <<pc, error>>
    /\ UNCHANGED <<sample_df, column_types, args, duplicates, num, before,
                   verbatim, expanded, main>>

TsReturn ==
    /\ pc = "ts_loop"
    /\ i = num
    /\ pc' = "text"
    /\ UNCHANGED <<sample_df, column_types, args, df, duplicates, num, i, before,
                   draws, verbatim, expanded, error, main>>

(***************************************************************************)
(* Pass 5: _add_text_corruption.                                           *)
(***************************************************************************)
\* the list `corruptions` of a non-empty string
Corruptions(original) ==
    {Str(Upper(original.s)),
     Str(Lower(original.s)),
     Str(original.s \o <<63, 63, 63>>),
     Str(ReplaceChar(original.s, original.s[1], 88)),
     Str(Reverse(original.s)),
     Str(original.s \o original.s),
     Str(<<>>)}
    \cup {Str(x) : x \in AlnumChoices(Len(original.s))}

TextBegin ==
    /\ pc = "text"
    /\ num' = NumDraws(Len(df.rows), args.text_corruption_rate)
    /\ i' = 0
    /\ before' = df
    /\ draws' = {}
    /\ pc' = IF TextCols = <<>> THEN "shuffle" ELSE "text_loop"
    /\ UNCHANGED <<sample_df, column_types, args, df, duplicates, verbatim,
                   expanded, error, main>>

TextDraw ==
    /\ pc = "text_loop"
    /\ i < num
    /\ IF Len(df.rows) = 0
       THEN pc' = "raised" /\ error' = "ValueError" /\ UNCHANGED <<df, draws, i>>
       ELSE /\ \E row_idx \in 1..Len(df.rows) : \E col \in Range(TextCols) :
                 LET original == df.rows[row_idx][col]
                 IN  /\ draws' = draws \cup {<<row_idx, col>>}
                     /\ IF IsStr(original) /\ Len(original.s) > 0
                        THEN \E v \in Corruptions(original) :
                                df' = SetAt(df, row_idx, col, v)
                        ELSE df' = df
            /\ i' = i + 1
            /\ UNCHANGED <<pc, error>>
    /\ UNCHANGED <<sample_df, column_types, args, duplicates, num, before,
                   verbatim, expanded, main>>

TextReturn ==
    /\ pc = "text_loop"
    /\ i = num
    /\ pc' = "shuffle"
    /\ UNCHANGED <<sample_df, column_types, args, df, duplicates, num, i, before,
                   draws, verbatim, expanded, error, main>>

(***************************************************************************)
(* Step 3: messy_data.sample(frac=1).reset_index(drop=True).               *)
(***************************************************************************)
RECURSIVE Permutations(_)
\* the orders of 1..n: an order of 1..(n - 1) with n put in at any place
Permutations(n) ==
    IF n = 0 THEN {<<>>}
    ELSE {[j \in 1..n |-> IF j < k THEN p[j] ELSE IF j = k THEN n ELSE p[j - 1]] :
             p \in Permutations(n - 1), k \in 1..n}
\* the rows taken in the order p: row j of the result is row p[j]
Take(t, p) == [t EXCEPT !.rows = [j \in 1..Len(t.rows) |-> t.rows[p[j]]]]

Shuffle ==
    /\ pc = "shuffle"
    /\ before' = df
    /\ draws' = {}
    /\ \E p \in Permutations(Len(df.rows)) : df' = Take(df, p)
    /\ pc' = "done"
    /\ UNCHANGED <<sample_df, column_types, args, duplicates, num, i, verbatim,
                   expanded, error, main>>

(***************************************************************************)
(* main(): load, construct, generate, save, analyse, report.               *)
(***************************************************************************)
NotMain == [stage |-> "api", ext |-> "", readable |-> TRUE, stdout |-> <<>>,
            exit_code |-> -1, saved |-> FALSE, analysis |-> <<>>]

\* the try block: pd.read_csv / pd.read_json, or ValueError for another suffix;
\* `except Exception as e: print(...); return`
MainLoad(loadable) ==
    /\ main.stage = "load"
    /\ IF main.ext \in {"csv", "json"} /\ main.readable
       THEN /\ sample_df' \in loadable
            /\ main' = [main EXCEPT !.stage = "construct",
                                    !.stdout = Append(@, "Loaded")]
       ELSE /\ sample_df' = sample_df
            /\ main' = [main EXCEPT !.stage = "returned",
                                    !.stdout = Append(@, "Error loading file")]
    /\ UNCHANGED <<column_types, args, pc, df, duplicates, num, i, before, draws,
                   verbatim, expanded, error>>

\* generator = AdvancedMessyDataGenerator(sample_df); generator.generate_messy_data(...)
MainGenerate ==
    /\ main.stage = "construct"
    /\ column_types' = AnalyzeColumns(sample_df)
    /\ pc' = "expand"
    /\ main' = [main EXCEPT !.stage = "generate"]
    /\ UNCHANGED <<sample_df, args, df, duplicates, num, i, before, draws,
                   verbatim, expanded, error>>

\* messy_data.to_csv(args.output, index=False)
MainSave ==
    /\ main.stage = "generate"
    /\ pc = "done"
    /\ main' = [main EXCEPT !.stage = "analyze", !.saved = TRUE,
                            !.stdout = Append(@, "Messy data saved")]
    /\ UNCHANGED <<sample_df, column_types, args, pc, df, duplicates, num, i,
                   before, draws, verbatim, expanded, error>>

\* analysis = generator.analyze_data_quality(messy_data), then the report file
MainAnalyze ==
    /\ main.stage = "analyze"
    /\ main' = [main EXCEPT !.stage = "returned",
                            !.analysis = <<Shape0(df), Shape1(df), Duplicated(df),
                                           NullCount(df)>>,
                            !.stdout = Append(@, "Analysis report saved")]
    /\ UNCHANGED <<sample_df, column_types, args, pc, df, duplicates, num, i,
                   before, draws, verbatim, expanded, error>>

\* `if __name__ == "__main__": main()`: the process ends with status 0 when main
\* returns, with status 1 when an exception left it
ProcessExit ==
    /\ main.stage = "returned"
    /\ main' = [main EXCEPT !.stage = "exited",
                            !.exit_code = IF pc = "raised" THEN 1 ELSE 0]
    /\ UNCHANGED <<sample_df, column_types, args, pc, df, duplicates, num, i,
                   before, draws, verbatim, expanded, error>>

(***************************************************************************)
(* Sample tables.                                                          *)
(***************************************************************************)
Frame(cols, rows) == [columns |-> cols, rows |-> rows]

\* 2020-01-01 and 2020-06-01 in minutes since the epoch
Jan2020 == Ts(18262 * 1440)
Jun2020 == Ts(18414 * 1440)

\* one numeric column holding 10 twice: random.uniform(10, 10) is 10
SampleNumeric ==
    Frame(<<"value">>, <<[value |-> Num(10)], [value |-> Num(10)]>>)

\* one datetime column holding 2020-01-01 twice
SampleDates ==
    Frame(<<"date">>, <<[date |-> Jan2020], [date |-> Jan2020]>>)

\* a column with no value at all beside a categorical one ("aB", "aB")
SampleMixed ==
    Frame(<<"note", "tag">>,
          <<[note |-> Null, tag |-> Str(<<97, 66>>)],
            [note |-> Null, tag |-> Str(<<97, 66>>)]>>)

\* one numeric column with the values 10 and 20
SampleRange ==
    Frame(<<"value">>, <<[value |-> Num(10)], [value |-> Num(20)]>>)

\* id 1 and 5, name "Alice" and "Bob", joined 2020-01-01 and 2020-06-01
SampleScenario ==
    Frame(<<"id", "name", "joined">>,
          <<[id |-> Num(1), name |-> Str(<<65, 108, 105, 99, 101>>), joined |-> Jan2020],
            [id |-> Num(5), name |-> Str(<<66, 111, 98>>), joined |-> Jun2020]>>)

\* The samples of Spec: every call of the random module that expansion and the
\* passes make on them has finitely many outcomes, each of them explored.
Samples == {SampleNumeric, SampleDates, SampleMixed}

(***************************************************************************)
(* Initial states: the generator constructed on a sample and                *)
(* generate_messy_data called with the arguments.                          *)
(***************************************************************************)
Args(rows, dup, nul, wrr, tsr, txt) ==
    [target_rows : rows, duplicate_rate : dup, null_rate : nul,
     wrong_range_rate : wrr, wrong_timestamp_rate : tsr, text_corruption_rate : txt]

InitLocals ==
    /\ df = EmptyFrame
    /\ duplicates = <<>>
    /\ num = 0
    /\ i = 0
    /\ before = EmptyFrame
    /\ draws = {}
    /\ verbatim = {}
    /\ expanded = EmptyFrame
    /\ error = ""

InitGenerator(samples, argset) ==
    /\ sample_df \in samples
    /\ column_types = AnalyzeColumns(sample_df)
    /\ args \in argset
    /\ pc = "expand"
    /\ main = NotMain
    /\ InitLocals

LaterRates ==
    {"null_rate", "wrong_range_rate", "wrong_timestamp_rate", "text_corruption_rate"}

AllRates == LaterRates \cup {"duplicate_rate"}

AllArgs == Args(0..MaxRows, Rates, Rates, Rates, Rates, Rates)

\* the draws the text pass makes under the arguments a
TextDraws(a) ==
    NumDraws(a.target_rows + NumDraws(a.target_rows, a.duplicate_rate),
             a.text_corruption_rate)

\* The arguments explored: with target_rows = 0 every combination of rates; with
\* rows, each pass alone at every rate; and, on fewer than MaxRows rows, a
\* duplication followed by one of the null, range and timestamp passes.  The
\* text pass makes at most MaxTextDraws draws.
ArgSet ==
    {a \in AllArgs :
        \/ a.target_rows = 0
        \/ /\ Cardinality({p \in AllRates : a[p] # Zero}) <= 1
           /\ TextDraws(a) <= MaxTextDraws
        \/ /\ a.target_rows < MaxRows
           /\ a.text_corruption_rate = Zero
           /\ Cardinality({p \in LaterRates : a[p] # Zero}) = 1}

Init == InitGenerator(Samples, ArgSet)

Passes ==
    \/ DupBegin \/ DupCopy \/ DupReturn
    \/ NullBegin \/ NullDraw \/ NullReturn
    \/ RangeBegin \/ RangeDraw \/ RangeReturn
    \/ TsBegin \/ TsDraw \/ TsReturn
    \/ TextBegin \/ TextDraw \/ TextReturn

Next == ExpandRow \/ ExpandReturn \/ Passes \/ Shuffle

Spec == Init /\ [][Next]_vars

(***************************************************************************)
(* The range scenario: the range pass at rate 1.0, every other rate 0, on  *)
(* the sample [10, 20].                                                    *)
(***************************************************************************)
InitRange ==
    InitGenerator({SampleRange},
                  Args(1..MaxRows, {Zero}, {Zero}, {One}, {Zero}, {Zero}))

NextRange ==
    \/ ExpandRow \/ ExpandReturn
    \/ DupBegin \/ DupReturn
    \/ NullBegin \/ NullReturn
    \/ RangeBegin \/ RangeDraw \/ RangeReturn
    \/ TsBegin
    \/ TextBegin
    \/ Shuffle

SpecRange == InitRange /\ [][NextRange]_vars

(***************************************************************************)
(* The three-column scenario with every rate 0: no pass draws.             *)
(***************************************************************************)
InitScenario ==
    InitGenerator({SampleScenario},
                  Args(1..MaxScenarioRows, {Zero}, {Zero}, {Zero}, {Zero}, {Zero}))

NextScenario ==
    \/ ExpandRow \/ ExpandReturn
    \/ DupBegin \/ DupReturn
    \/ NullBegin \/ NullReturn
    \/ RangeBegin \/ RangeReturn
    \/ TsBegin \/ TsReturn
    \/ TextBegin \/ TextReturn
    \/ Shuffle

SpecScenario == InitScenario /\ [][NextScenario]_vars

(***************************************************************************)
(* The program run from the command line.                                  *)
(***************************************************************************)
InitMain ==
    /\ sample_df = EmptyFrame
    /\ column_types = AnalyzeColumns(EmptyFrame)
    /\ args \in ArgSet
    /\ pc = "idle"
    /\ main \in [stage : {"load"}, ext : {"csv", "json", "txt"}, readable : BOOLEAN,
                 stdout : {<<>>}, exit_code : {-1}, saved : {FALSE},
                 analysis : {<<>>}]
    /\ InitLocals

NextMain ==
    \/ MainLoad(Samples)
    \/ MainGenerate
    \/ Next
    \/ MainSave
    \/ MainAnalyze
    \/ ProcessExit

SpecMain == InitMain /\ [][NextMain]_vars

(***************************************************************************)
(* Properties.                                                             *)
(***************************************************************************)
\* program positions after _expand_data returned / after the duplication pass returned
AfterExpand == pc \notin {"idle", "expand"}
AfterDup == pc \notin {"idle", "expand", "dup", "dup_loop", "raised"}

\* floor(n * rate): the whole part of the product of n and the number the rate
\* denotes, computed without rounding
FloorOfProduct ==
    [n \in Counts, rate \in Rates |->
        IntOfFloat([mant |-> Trim(MulBits(Float(rate).mant, n)),
                    exp |-> Float(rate).exp])]

FloorRate(n, rate) == FloorOfProduct[n, rate]

RowsAfterDup == args.target_rows + FloorRate(args.target_rows, args.duplicate_rate)

LaterRatesZero == \A p \in LaterRates : args[p] = Zero

\* C1: the table _expand_data returns has exactly target_rows rows and the column
\* set of the sample, for every target_rows >= 0 (0 included).
C1_ExpandShape ==
    AfterExpand =>
        /\ Len(expanded.rows) = args.target_rows
        /\ Range(expanded.columns) = Range(sample_df.columns)

\* C2: after the duplication pass the table has target_rows +
\* floor(target_rows * duplicate_rate) rows, no later pass nor the shuffle changes
\* that, and passes 3-5 compute their draw count from that row count.
C2_RowCount ==
    /\ AfterDup => Len(df.rows) = RowsAfterDup
    /\ pc \in {"range_loop", "ts"} => num = NumDraws(Len(df.rows), args.wrong_range_rate)
    /\ pc \in {"ts_loop", "text"} =>
          num = NumDraws(Len(df.rows), args.wrong_timestamp_rate)
    /\ pc \in {"text_loop", "shuffle", "done"} =>
          num = NumDraws(Len(df.rows), args.text_corruption_rate)

\* cells that were not null when the current pass began and are null now
Introduced ==
    Cardinality({<<j, c>> \in (1..Len(df.rows)) \X Range(df.columns) :
                    ~IsNull(before.rows[j][c]) /\ IsNull(df.rows[j][c])})

\* floor(total_cells * null_rate) for the table the null pass is given
NullBound == FloorRate(Len(before.rows) * Len(before.columns), args.null_rate)

\* C3: when the null pass returns, the cells it turned from non-null to null number
\* at most floor(total_cells * null_rate), total_cells being the rows times the
\* columns of the table it was given; they number exactly that only if no pair
\* was drawn twice and no drawn cell was null already.
C3_NullBound ==
    pc = "range" =>
        /\ Introduced <= NullBound
        /\ Introduced = NullBound =>
              /\ Cardinality(draws) = i
              /\ \A d \in draws : ~IsNull(before.rows[d[1]][d[2]])

\* the profile has no column of these kinds
NoColumnOf(types) == \A c \in DOMAIN column_types : column_types[c].type \notin types

\* C4: a pass whose column kind is absent leaves every cell unchanged and raises
\* nothing: the range pass without a numeric column, the timestamp pass without a
\* datetime column, the text pass without a text or categorical column.
C4_AbsentKindNoOp ==
    /\ pc \in {"range_loop", "ts"} /\ NoColumnOf({"numeric"}) => df = before /\ error = ""
    /\ pc \in {"ts_loop", "text"} /\ NoColumnOf({"datetime"}) => df = before /\ error = ""
    /\ pc \in {"text_loop", "shuffle"} /\ NoColumnOf({"text", "categorical"}) =>
          df = before /\ error = ""

\* the range pass ran its draws on a table with no numeric column
C4_Witness ==
    /\ pc = "ts"
    /\ NoColumnOf({"numeric"})
    /\ args.wrong_range_rate = One
    /\ num > 0
    /\ i = num

\* the scenario of C5: the sample [10, 20], wrong_range_rate 1.0, the other rates 0,
\* the range pass returned (target_rows is any row count of the model, not 10)
C5_Scenario ==
    /\ sample_df = SampleRange
    /\ args.target_rows >= 1
    /\ args.wrong_range_rate = One
    /\ \A p \in AllRates \ {"wrong_range_rate"} : args[p] = Zero
    /\ pc = "ts"

\* the cell is one number, a member of the set
NumberIn(c, set) == c.k = "num" /\ Exact(c) /\ c.n \in set

\* C5 as stated: in the scenario every row's value is in {-10, 40, -999999, 999999, -1}.
C5_Original ==
    C5_Scenario =>
        \A j \in 1..Len(df.rows) :
            NumberIn(df.rows[j].value, {-10, 40, -999999, 999999, -1})

\* C5 amended: in the scenario the pass made target_rows draws; a row a draw picked
\* holds one of {0, 30, -999999, 999999}; a row no draw picked holds its expanded
\* value, which lies in [10, 20].
C5_DrawnRows ==
    C5_Scenario =>
        /\ i = args.target_rows
        /\ \A j \in 1..Len(df.rows) :
              IF <<j, "value">> \in draws
              THEN NumberIn(df.rows[j].value, {0, 30, -999999, 999999})
              ELSE /\ df.rows[j] = expanded.rows[j]
                   /\ df.rows[j].value.k = "num"
                   /\ 10 <= df.rows[j].value.n
                   /\ df.rows[j].value.m <= 20

\* the scenario ended with one row overwritten and another, which random.uniform
\* had filled, never picked
C5_Witness ==
    /\ C5_Scenario
    /\ \E j \in 1..Len(df.rows) : <<j, "value">> \in draws
    /\ \E j \in 1..Len(df.rows) :
          /\ <<j, "value">> \notin draws
          /\ ~Exact(df.rows[j].value)
          /\ Covers(df.rows[j].value, Num(15))

\* the three-column scenario run to its end
C6_Scenario == sample_df = SampleScenario /\ pc = "done"

\* the part of C6 both statements share: the row count, no null, id and joined in range
C6_Shape ==
    /\ Len(df.rows) = args.target_rows
    /\ NullCount(df) = 0
    /\ \A j \in 1..Len(df.rows) :
          /\ df.rows[j].id.k = "num"
          /\ 1 <= df.rows[j].id.n /\ df.rows[j].id.m <= 5
          /\ df.rows[j].joined.k = "ts"
          /\ Jan2020.n <= df.rows[j].joined.n /\ df.rows[j].joined.m <= Jun2020.n

C7_Original == pc = "done" => Duplicated(df) >= Cardinality(verbatim)

\* C7 amended: that holds of the table the duplication pass returns, and of the
\* final table when the four later rates are 0.
C7_VerbatimCounted ==
    /\ pc = "null" => Duplicated(df) >= Cardinality(verbatim)
    /\ pc = "done" /\ LaterRatesZero => Duplicated(df) >= Cardinality(verbatim)

\* a final table, later rates 0, with a verbatim copy and a mutated copy
C7_Witness ==
    /\ pc = "done"
    /\ LaterRatesZero
    /\ verbatim # {}
    /\ Cardinality(verbatim) < Len(duplicates)

\* C8: with target_rows = 0 no pass draws, nothing is raised, the run goes on to
\* its end and the table returned has zero rows.
C8_EmptyTarget ==
    args.target_rows = 0 =>
        /\ pc # "raised" /\ error = ""
        /\ draws = {} /\ i = 0 /\ num = 0
        /\ Len(df.rows) = 0
        /\ pc # "done" => ENABLED Next

\* a run on zero rows that ended, every rate being 1.0
C8_Witness ==
    /\ pc = "done"
    /\ args.target_rows = 0
    /\ \A p \in AllRates : args[p] = One

LoadFails == main.ext \notin {"csv", "json"} \/ ~main.readable

\* C10: when the input cannot be loaded the program reports the failure, ends with
\* a non-zero status and runs neither generation, saving nor reporting.
C10_LoadFailure ==
    main.stage = "exited" /\ LoadFails =>
        /\ "Error loading file" \in Range(main.stdout)
        /\ main.exit_code # 0
        /\ pc = "idle"
        /\ ~main.saved
        /\ main.analysis = <<>>

====
